---- MODULE Spec2Model ----
(***************************************************************************)
(* Model of the wgpu-foray rendering session: src/src/main.rs (State and   *)
(* the run loop) and src/src/colors.rs (RgbaColor).                        *)
(*                                                                         *)
(* f64 values are modelled as fractions [n, d]: d > 0 is the finite value  *)
(* n/d in lowest terms, d = 0 is +inf (n = 1), -inf (n = -1) or NaN        *)
(* (n = 0).  Rounding of f64 arithmetic is not modelled.                   *)
(***************************************************************************)
EXTENDS Integers, Sequences, FiniteSets, TLC

\* ---------------------------------------------------------------- bounds
MaxWidth == 2      \* largest window width offered by the window system
MaxHeight == 1     \* largest window height offered by the window system

\* i32 window dimensions: negative, zero and positive
Widths == -1 .. MaxWidth
Heights == -1 .. MaxHeight
\* pointer coordinates, inside and outside the window
CoordsX == -1 .. MaxWidth
CoordsY == -1 .. MaxHeight

\* ---------------------------------------------------------------- f64
Abs(x) == IF x < 0 THEN -x ELSE x
Sign(x) == IF x > 0 THEN 1 ELSE IF x < 0 THEN -1 ELSE 0

RECURSIVE Gcd(_, _)
Gcd(a, b) == IF b = 0 THEN a ELSE Gcd(b, a % b)

\* the f64 with value n/d
F(n, d) ==
    IF d = 0 THEN [n |-> Sign(n), d |-> 0]
    ELSE LET g == Gcd(Abs(n), Abs(d))
         IN  [n |-> (Sign(d) * n) \div g, d |-> Abs(d) \div g]

NaN == [n |-> 0, d |-> 0]
IsNaN(a) == a.d = 0 /\ a.n = 0
IsInf(a) == a.d = 0 /\ a.n # 0

\* `i as f64`
FromInt(i) == F(i, 1)

\* IEEE division a / b (the sign of a zero is not tracked)
FDiv(a, b) ==
    IF IsNaN(a) \/ IsNaN(b) THEN NaN
    ELSE IF IsInf(a) THEN (IF IsInf(b) THEN NaN
                           ELSE F(a.n * (IF b.n < 0 THEN -1 ELSE 1), 0))
    ELSE IF IsInf(b) THEN F(0, 1)
    ELSE IF b.n = 0 THEN F(a.n, 0)
    ELSE F(a.n * b.d, a.d * b.n)

\* IEEE addition a + b
FAdd(a, b) ==
    IF IsNaN(a) \/ IsNaN(b) THEN NaN
    ELSE IF IsInf(a) /\ IsInf(b) THEN (IF a.n = b.n THEN a ELSE NaN)
    ELSE IF IsInf(a) THEN a
    ELSE IF IsInf(b) THEN b
    ELSE F(a.n * b.d + b.n * a.d, a.d * b.d)

\* IEEE comparison a > b (false when either side is NaN)
FGt(a, b) ==
    IF IsNaN(a) \/ IsNaN(b) THEN FALSE
    ELSE IF IsInf(a) THEN (a.n = 1 /\ ~(IsInf(b) /\ b.n = 1))
    ELSE IF IsInf(b) THEN b.n = -1
    ELSE a.n * b.d > b.n * a.d

\* ---------------------------------------------------------------- colors
Color(r, g, b, a) == [r |-> r, g |-> g, b |-> b, a |-> a]

\* wgpu::Color::WHITE / colors::Colors::WHITE
WHITE == Color(F(1, 1), F(1, 1), F(1, 1), F(1, 1))

NoColor == Color(NaN, NaN, NaN, NaN)

\* ---------------------------------------------------------------- RgbaColor
\* Option<RgbaColor>; RgbaColor is the tuple struct (f64, f64, f64, f64)
Some(v) == [tag |-> "Some", val |-> v]
None == [tag |-> "None", val |-> <<>>]
Pending == [tag |-> "Pending", val |-> <<>>]

\* is_invalid with the upper bound excluded
is_invalid_Strict(x) == IF FGt(F(0, 1), x) \/ ~FGt(F(1, 1), x) THEN FALSE ELSE TRUE

\* the closure is_invalid of RgbaColor::new
is_invalid(x) == IF FGt(F(0, 1), x) \/ FGt(x, F(1, 1)) THEN FALSE ELSE TRUE

\* vec![r, g, b, a].iter().any(|x| is_invalid(x))
proceed(t) == \E i \in 1 .. 4 : is_invalid(t[i])

RgbaColorNew(t) == IF proceed(t) THEN Some(<<t[1], t[2], t[3], t[4]>>) ELSE None

red(c) == c[1]
green(c) == c[2]
blue(c) == c[3]
alpha(c) == c[4]

\* ---------------------------------------------------------------- GPU calls
\* one call on the surface, device, encoder, render pass, queue or texture
Call(op, mode, color, a, b) ==
    [op |-> op, mode |-> mode, color |-> color, a |-> a, b |-> b]

\* get_current_texture() returning Ok or an error
GetCurrentTexture(res) == Call("get_current_texture", res, NoColor, 0, 0)
CreateView == Call("create_view", "-", NoColor, 0, 0)
CreateCommandEncoder == Call("create_command_encoder", "-", NoColor, 0, 0)
BeginClearPass(c) == Call("begin_render_pass", "Clear", c, 0, 0)
BeginLoadPass == Call("begin_render_pass", "Load", NoColor, 0, 0)
SetPipeline(i) == Call("set_pipeline", "-", NoColor, i, 0)
Draw(vertices, instances) == Call("draw", "-", NoColor, vertices, instances)
DropRenderPass == Call("drop_render_pass", "-", NoColor, 0, 0)
Finish == Call("finish", "-", NoColor, 0, 0)
Submit == Call("submit", "-", NoColor, 0, 0)
Present == Call("present", "-", NoColor, 0, 0)
Configure(w, h) == Call("configure", "-", NoColor, w, h)

\* outcomes of surface.get_current_texture()
AcquireResults == {"Ok", "Lost", "Outdated", "OutOfMemory", "Timeout", "Other"}

\* index into render_pipelines elected by the toggle
\* State::render_pipelines, indexed from 0 in the program
render_pipelines == << "render_pipeline_0", "render_pipeline_1" >>

PipelineIndex(toggle) == IF toggle THEN 1 ELSE 0

\* ClearScreenCalls with the acquired texture never presented
ClearScreenCalls_NoPresent(c) ==
    << GetCurrentTexture("Ok"), CreateView, CreateCommandEncoder,
       BeginClearPass(c), DropRenderPass,
       Finish, Submit >>

\* State::clear_screen_to: one clear-only pass
ClearScreenCalls(c) ==
    << GetCurrentTexture("Ok"), CreateView, CreateCommandEncoder,
       BeginClearPass(c), DropRenderPass,
       Finish, Submit, Present >>

\* State::draw_triangle: one load-and-draw pass
DrawTriangleCalls(toggle) ==
    << GetCurrentTexture("Ok"), CreateView, CreateCommandEncoder,
       BeginLoadPass, SetPipeline(PipelineIndex(toggle)), Draw(3, 1), DropRenderPass,
       Finish, Submit, Present >>

\* SpaceCalls with the pipeline elected before the toggle was flipped
SpaceCalls_StalePipeline(c, toggle) ==
    << GetCurrentTexture("Ok"), CreateView, CreateCommandEncoder,
       BeginClearPass(c), DropRenderPass,
       BeginLoadPass, SetPipeline(PipelineIndex(~toggle)), Draw(3, 1), DropRenderPass,
       Finish, Submit, Present >>

\* the frame inlined in the Key::Space handler
SpaceCalls(c, toggle) ==
    << GetCurrentTexture("Ok"), CreateView, CreateCommandEncoder,
       BeginClearPass(c), DropRenderPass,
       BeginLoadPass, SetPipeline(PipelineIndex(toggle)), Draw(3, 1), DropRenderPass,
       Finish, Submit, Present >>

\* CursorCalls with the encoder finished while the foreground pass is open
CursorCalls_OpenPass(c, toggle) ==
    << GetCurrentTexture("Ok"), CreateView, CreateCommandEncoder,
       BeginClearPass(c), DropRenderPass,
       BeginLoadPass, SetPipeline(PipelineIndex(toggle)), Draw(3, 1),
       Finish, DropRenderPass, Submit, Present >>

\* the frame inlined in the CursorPos handler
CursorCalls(c, toggle) ==
    << GetCurrentTexture("Ok"), CreateView, CreateCommandEncoder,
       BeginClearPass(c), DropRenderPass,
       BeginLoadPass, SetPipeline(PipelineIndex(toggle)), Draw(3, 1), DropRenderPass,
       Finish, Submit, Present >>

\* the calls made when .expect("Failed to get texture") panics on error err
FailedAcquire(err) == << GetCurrentTexture(err) >>

\* ---------------------------------------------------------------- state
VARIABLES
    size,             \* State.size, the (i32, i32) last stored
    config,           \* State.config
    surface,          \* the configuration last applied by surface.configure
    should_close,     \* the window's close flag
    triangle_toggle,  \* loop local
    last_color,       \* loop local
    pc,               \* "start", "loop", "events", "done" or "panic"
    event,            \* the event whose match arm most recently ran to its end
                      \* (none at startup and after a panic)
    calls,            \* the GPU calls made since the most recent dispatch or poll
    toggle_hist,      \* triangle_toggle as it was before each of the last two toggles
    args,             \* argument tuple of RgbaColor::new
    result,           \* value returned by RgbaColor::new
    got               \* values returned by red, green, blue, alpha

vars == << size, config, surface, should_close, triangle_toggle, last_color, pc,
           event, calls, toggle_hist, args, result, got >>

sessionVars == << size, config, surface, should_close, triangle_toggle, last_color, pc,
                  event, calls, toggle_hist >>
colorVars == << args, result, got >>

Max(a, b) == IF a > b THEN a ELSE b

\* `i as u32` for an i32 i.  A negative i wraps to i + 2^32 >= 2^31, beyond
\* the integers of the checker; every such value is represented by 2^31 - 1.
AsU32(i) == IF i >= 0 THEN i ELSE 2147483647

\* NewConfig without the clamp to a minimum of 1
NewConfig_NoClamp(sz) ==
    [ usage |-> "RENDER_ATTACHMENT",
      format |-> "surface_format",
      width |-> AsU32(sz[1]),
      height |-> AsU32(sz[2]),
      present_mode |-> "present_modes[0]",
      alpha_mode |-> "alpha_modes[0]",
      desired_maximum_frame_latency |-> 2 ]

\* the SurfaceConfiguration built by State::new
NewConfig(sz) ==
    [ usage |-> "RENDER_ATTACHMENT",
      format |-> "surface_format",
      width |-> AsU32(Max(sz[1], 1)),
      height |-> AsU32(Max(sz[2], 1)),
      present_mode |-> "present_modes[0]",
      alpha_mode |-> "alpha_modes[0]",
      desired_maximum_frame_latency |-> 2 ]

Ev(type, a, b) == [type |-> type, a |-> a, b |-> b]
NoEvent == Ev("none", 0, 0)

\* events that fall to the catch-all arm
OtherKinds == {"KeyA", "EscapeRelease", "MouseRight", "CursorEnter"}

\* State::new followed by the declarations of the loop locals
InitSession ==
    /\ size \in Widths \X Heights
    /\ config = NewConfig(size)
    /\ surface = config
    /\ should_close = FALSE
    /\ triangle_toggle = FALSE
    /\ last_color = WHITE
    /\ pc = "start"
    /\ event = NoEvent
    /\ calls = << >>
    /\ toggle_hist = << >>

IdleColor ==
    /\ args = << F(0, 1), F(0, 1), F(0, 1), F(0, 1) >>
    /\ result = Pending
    /\ got = << >>

Init == InitSession /\ IdleColor

\* Resize guarded by `||` instead of `&&`
Resize_EitherPositive(s, new_size) ==
    IF new_size[1] > 0 \/ new_size[2] > 0
    THEN LET cfg == [s.config EXCEPT !.width = AsU32(new_size[1]),
                                     !.height = AsU32(new_size[2])]
         IN  [ size |-> new_size,
               config |-> cfg,
               surface |-> cfg,
               calls |-> << Configure(cfg.width, cfg.height) >> ]
    ELSE [s EXCEPT !.calls = << >>]

\* Resize that stores the configured width and height swapped
Resize_Swapped(s, new_size) ==
    IF new_size[1] > 0 /\ new_size[2] > 0
    THEN LET cfg == [s.config EXCEPT !.width = AsU32(new_size[2]),
                                     !.height = AsU32(new_size[1])]
         IN  [ size |-> new_size,
               config |-> cfg,
               surface |-> cfg,
               calls |-> << Configure(cfg.width, cfg.height) >> ]
    ELSE [s EXCEPT !.calls = << >>]

\* State::resize on the session fields s = [size, config, surface, calls]
Resize(s, new_size) ==
    IF new_size[1] > 0 /\ new_size[2] > 0
    THEN LET cfg == [s.config EXCEPT !.width = AsU32(new_size[1]),
                                     !.height = AsU32(new_size[2])]
         IN  [ size |-> new_size,
               config |-> cfg,
               surface |-> cfg,
               calls |-> << Configure(cfg.width, cfg.height) >> ]
    ELSE [s EXCEPT !.calls = << >>]

Session == [size |-> size, config |-> config, surface |-> surface, calls |-> calls]

\* the toggle set instead of flipped
Toggle_Set(t) == TRUE

\* triangle_toggle = !triangle_toggle
Toggle(t) == ~t

\* CursorColor with both coordinates divided by the width
CursorColor_WidthOnly(x, y, sz) ==
    LET x_normalized == FDiv(FromInt(x), FromInt(sz[1]))
        y_normalized == FDiv(FromInt(y), FromInt(sz[1]))
    IN  Color(x_normalized, y_normalized,
              FDiv(FAdd(x_normalized, y_normalized), F(2, 1)), F(1, 1))

\* the color computed by the CursorPos handler from the pointer and State.size
CursorColor(x, y, sz) ==
    LET x_normalized == FDiv(FromInt(x), FromInt(sz[1]))
        y_normalized == FDiv(FromInt(y), FromInt(sz[2]))
    IN  Color(x_normalized, y_normalized,
              FDiv(FAdd(x_normalized, y_normalized), F(2, 1)), F(1, 1))

Push2(h, v) == IF Len(h) < 2 THEN Append(h, v) ELSE << h[2], v >>

\* ---------------------------------------------------------------- run
\* state.clear_screen_to(colors::Colors::WHITE) before the loop
StartupClear ==
    /\ pc = "start"
    /\ \E acq \in AcquireResults :
         IF acq = "Ok"
         THEN /\ calls' = ClearScreenCalls(WHITE)
              /\ pc' = "loop"
         ELSE /\ calls' = FailedAcquire(acq)
              /\ pc' = "panic"
    /\ UNCHANGED << size, config, surface, should_close, triangle_toggle, last_color,
                    event, toggle_hist >>
    /\ UNCHANGED colorVars

\* while !state.window.should_close(): the flag is set
LoopExit ==
    /\ pc = "loop"
    /\ should_close
    /\ pc' = "done"
    /\ UNCHANGED << size, config, surface, should_close, triangle_toggle, last_color,
                    event, calls, toggle_hist >>
    /\ UNCHANGED colorVars

\* the flag is clear: glfw.poll_events(); state.update()
PollEvents ==
    /\ pc = "loop"
    /\ ~should_close
    /\ calls' = << >>
    /\ pc' = "events"
    /\ UNCHANGED << size, config, surface, should_close, triangle_toggle, last_color,
                    event, toggle_hist >>
    /\ UNCHANGED colorVars

\* flush_messages yields event e and its match arm runs to its end
Dispatch(e) ==
    /\ pc = "events"
    /\ event' = e

\* Key(Key::Escape, _, Action::Press, _)
KeyEscape ==
    /\ Dispatch(Ev("KeyEscape", 0, 0))
    /\ should_close' = TRUE
    /\ calls' = << >>
    /\ UNCHANGED << size, config, surface, triangle_toggle, last_color, pc, toggle_hist >>
    /\ UNCHANGED colorVars

\* Key(Key::Space, _, Action::Press, _)
KeySpace ==
    /\ pc = "events"
    /\ triangle_toggle' = Toggle(triangle_toggle)
    /\ toggle_hist' = Push2(toggle_hist, triangle_toggle)
    /\ \E acq \in AcquireResults :
         IF acq = "Ok"
         THEN /\ calls' = SpaceCalls(last_color, triangle_toggle')
              /\ event' = Ev("KeySpace", 0, 0)
              /\ pc' = pc
         ELSE /\ calls' = FailedAcquire(acq)
              /\ event' = NoEvent
              /\ pc' = "panic"
    /\ UNCHANGED << size, config, surface, should_close, last_color >>
    /\ UNCHANGED colorVars

\* Size(width, height)
SizeEvent(width, height) ==
    /\ Dispatch(Ev("Size", width, height))
    /\ LET s == Resize(Session, << width, height >>)
       IN  /\ size' = s.size
           /\ config' = s.config
           /\ surface' = s.surface
           /\ calls' = s.calls
    /\ UNCHANGED << should_close, triangle_toggle, last_color, pc, toggle_hist >>
    /\ UNCHANGED colorVars

\* MouseButton(MouseButton::Left, Action::Press, _)
MouseLeft ==
    /\ Dispatch(Ev("MouseLeft", 0, 0))
    /\ should_close' = TRUE
    /\ calls' = << >>
    /\ UNCHANGED << size, config, surface, triangle_toggle, last_color, pc, toggle_hist >>
    /\ UNCHANGED colorVars

\* CursorPos(x, y)
CursorPos ==
    /\ pc = "events"
    /\ \E acq \in AcquireResults :
         IF acq = "Ok"
         THEN \E x \in CoordsX, y \in CoordsY :
                /\ last_color' = CursorColor(x, y, size)
                /\ calls' = CursorCalls(last_color', triangle_toggle)
                /\ event' = Ev("CursorPos", x, y)
                /\ pc' = pc
         ELSE /\ last_color' = last_color
              /\ calls' = FailedAcquire(acq)
              /\ event' = NoEvent
              /\ pc' = "panic"
    /\ UNCHANGED << size, config, surface, should_close, triangle_toggle, toggle_hist >>
    /\ UNCHANGED colorVars

\* OtherEvent with the background color put back to its initial value
OtherEvent_ResetsColor(kind) ==
    /\ Dispatch(Ev(kind, 0, 0))
    /\ calls' = << >>
    /\ last_color' = WHITE
    /\ UNCHANGED << size, config, surface, should_close, triangle_toggle, pc, toggle_hist >>
    /\ UNCHANGED colorVars

\* the catch-all arm: the event is printed
OtherEvent(kind) ==
    /\ Dispatch(Ev(kind, 0, 0))
    /\ calls' = << >>
    /\ UNCHANGED << size, config, surface, should_close, triangle_toggle, last_color, pc, toggle_hist >>
    /\ UNCHANGED colorVars

\* flush_messages is exhausted: back to the loop condition
EndBatch ==
    /\ pc = "events"
    /\ pc' = "loop"
    /\ UNCHANGED << size, config, surface, should_close, triangle_toggle, last_color,
                    event, calls, toggle_hist >>
    /\ UNCHANGED colorVars

Next ==
    \/ StartupClear
    \/ LoopExit
    \/ PollEvents
    \/ KeyEscape
    \/ KeySpace
    \/ \E w \in Widths, h \in Heights : SizeEvent(w, h)
    \/ MouseLeft
    \/ CursorPos
    \/ \E k \in OtherKinds : OtherEvent(k)
    \/ EndBatch

Spec == Init /\ [][Next]_vars

\* ---------------------------------------------------------------- RgbaColor::new alone
\* f64 channel values offered to RgbaColor::new
Channels ==
    { F(-1, 2), F(0, 1), F(1, 2), F(1, 1), F(3, 2), NaN, F(1, 0) }

InitColor ==
    /\ InitSession
    /\ size = << 1, 1 >>
    /\ args \in Channels \X Channels \X Channels \X Channels
    /\ result = Pending
    /\ got = << >>

\* RgbaColor::new(args)
ColorNew ==
    /\ result = Pending
    /\ result' = RgbaColorNew(args)
    /\ UNCHANGED << args, got >>
    /\ UNCHANGED sessionVars

\* red(), green(), blue(), alpha() on the constructed value
Accessors ==
    /\ result.tag = "Some"
    /\ got = << >>
    /\ got' = << red(result.val), green(result.val), blue(result.val), alpha(result.val) >>
    /\ UNCHANGED << args, result >>
    /\ UNCHANGED sessionVars

NextColor == ColorNew \/ Accessors

SpecColor == InitColor /\ [][NextColor]_vars

\* ---------------------------------------------------------------- reading a call sequence
Idx(cs, op) == { i \in DOMAIN cs : cs[i].op = op }
Count(cs, op) == Cardinality(Idx(cs, op))
Presented(cs) == Idx(cs, "present") # {}

\* the position of the only call named op
Pos(cs, op) == CHOOSE i \in Idx(cs, op) : TRUE

\* the drop_render_pass that ends the pass begun at position i (0 if none)
EndOf(cs, i) ==
    LET later == { j \in Idx(cs, "drop_render_pass") : j > i }
    IN  IF later = {} THEN 0 ELSE CHOOSE j \in later : \A k \in later : j <= k

\* the calls recorded inside the pass begun at position i
Inside(cs, i) == { j \in DOMAIN cs : i < j /\ j < EndOf(cs, i) }

\* a clear-and-store pass to color c that binds no pipeline and draws nothing
IsBackgroundPass(cs, i, c) ==
    /\ cs[i].mode = "Clear"
    /\ cs[i].color = c
    /\ EndOf(cs, i) # 0
    /\ Inside(cs, i) = {}

\* a load-and-store pass that binds pipeline p and then draws
IsForegroundPass(cs, i, p) ==
    /\ cs[i].mode = "Load"
    /\ EndOf(cs, i) # 0
    /\ \E j, k \in Inside(cs, i) :
         /\ j < k
         /\ cs[j] = SetPipeline(p)
         /\ cs[k].op = "draw"
         /\ Inside(cs, i) = {j, k}

IsTwoPassFrame(cs, c, p) ==
    /\ Count(cs, "begin_render_pass") = 2
    /\ \E i, j \in Idx(cs, "begin_render_pass") :
         /\ i < j
         /\ EndOf(cs, i) < j
         /\ IsBackgroundPass(cs, i, c)
         /\ IsForegroundPass(cs, j, p)

\* ---------------------------------------------------------------- C1
\* C1: every presented frame is composed of exactly two passes, first a
\* clear-to-the-current-background-color pass without pipeline or draw, then a
\* load pass that binds the selected pipeline and draws; no presented frame
\* is a clear-only pass alone or a load-and-draw pass alone.
C1_EveryFrameTwoPasses ==
    Presented(calls) =>
        IsTwoPassFrame(calls, last_color, PipelineIndex(triangle_toggle))

\* ---------------------------------------------------------------- C2
\* every call of one frame composition happens once, in the order acquire,
\* view, encoder, passes, finish, submit, present, and every pass is ended
\* before the next one begins and before the encoder is finished
WellOrdered(cs) ==
    /\ \A op \in {"get_current_texture", "create_view", "create_command_encoder",
                  "finish", "submit", "present"} : Count(cs, op) = 1
    /\ Pos(cs, "get_current_texture") < Pos(cs, "create_view")
    /\ Pos(cs, "create_view") < Pos(cs, "create_command_encoder")
    /\ Pos(cs, "finish") < Pos(cs, "submit")
    /\ Pos(cs, "submit") < Pos(cs, "present")
    /\ Idx(cs, "begin_render_pass") # {}
    /\ Count(cs, "begin_render_pass") = Count(cs, "drop_render_pass")
    /\ \A i \in Idx(cs, "begin_render_pass") :
         /\ Pos(cs, "create_command_encoder") < i
         /\ EndOf(cs, i) # 0
         /\ EndOf(cs, i) < Pos(cs, "finish")
         /\ \A j \in Idx(cs, "begin_render_pass") : i < j => EndOf(cs, i) < j
    /\ \A i \in Idx(cs, "set_pipeline") \cup Idx(cs, "draw") :
         \E j \in Idx(cs, "begin_render_pass") : i \in Inside(cs, j)

\* C2: within every frame composition the calls occur in the order acquire
\* texture, create view, open encoder, passes, finish, submit, present, and
\* no pass is open when the encoder is finished: passes neither overlap nor
\* outlive the encoder.
C2_FrameCallOrder ==
    /\ Presented(calls) => WellOrdered(calls)
    /\ WellOrdered(DrawTriangleCalls(triangle_toggle))

C2_Witness ==
    /\ event.type = "CursorPos"
    /\ Presented(calls)
    /\ Count(calls, "begin_render_pass") = 2

\* ---------------------------------------------------------------- C3
\* C3: every iteration of the outer loop composes and presents one frame
\* after the queued events are processed, also when no event arrived: when
\* control returns to the loop condition a frame has just been presented.
C3_FramePerIteration ==
    pc = "loop" => Count(calls, "present") = 1

\* ---------------------------------------------------------------- C4, C5
\* the channel value is a real number in [0, 1]
InUnit(x) == x.d > 0 /\ 0 <= x.n /\ x.n <= x.d
\* the channel value is a number below 0 or above 1
OutsideUnit(x) == (x.d > 0 /\ (x.n < 0 \/ x.n > x.d)) \/ IsInf(x)

\* C4: construction returns no value whenever at least one of the four
\* channels lies outside [0,1], also when the other three are in range.
C4_RejectsAnyOutOfRange ==
    (result # Pending /\ \E i \in 1 .. 4 : OutsideUnit(args[i])) => result = None

\* C5: when all four channels are in [0,1] construction succeeds and red,
\* green, blue, alpha return exactly the four inputs in their order.
C5_InRangeRoundTrip ==
    (\A i \in 1 .. 4 : InUnit(args[i])) =>
        /\ result # Pending => result = Some(args)
        /\ got # << >> => got = args

C5_Witness ==
    /\ \A i \in 1 .. 4 : InUnit(args[i])
    /\ Cardinality({ args[i] : i \in 1 .. 4 }) = 3
    /\ args[4] = F(1, 1)
    /\ result.tag = "Some"
    /\ got = args

\* ---------------------------------------------------------------- C6
\* the Size arm ran in this step
SizeStep == pc = "events" /\ pc' = "events" /\ event'.type = "Size"

\* C6: a resize with a non-positive width or height changes neither the
\* stored size nor any field of the configuration, and does not reapply the
\* configuration to the surface.
C6_NonPositiveResizeNoop ==
    [][ (SizeStep /\ (event'.a <= 0 \/ event'.b <= 0)) =>
            /\ size' = size
            /\ config' = config
            /\ surface' = surface
            /\ Count(calls', "configure") = 0 ]_vars

C6_Witness ==
    /\ event.type = "Size"
    /\ event.a > 0
    /\ event.b <= 0
    /\ size[1] > 0 /\ size[2] > 0
    /\ size[1] # event.a
    /\ calls = << >>

\* ---------------------------------------------------------------- C7
\* C7: a resize with positive width and height sets the stored size and the
\* configured width and height to exactly (w,h), and applying the same
\* resize a second time changes nothing further.
C7_PositiveResizeExactIdempotent ==
    /\ (event.type = "Size" /\ event.a > 0 /\ event.b > 0) =>
           /\ size = << event.a, event.b >>
           /\ config.width = event.a /\ config.height = event.b
           /\ surface = config
    /\ \A w \in Widths, h \in Heights :
           (w > 0 /\ h > 0) =>
               LET once == Resize(Session, << w, h >>)
                   twice == Resize(once, << w, h >>)
               IN  /\ once.size = << w, h >>
                   /\ once.config.width = w /\ once.config.height = h
                   /\ twice = once

C7_Witness ==
    /\ event = Ev("Size", MaxWidth, 1)
    /\ MaxWidth # 1
    /\ size = << MaxWidth, 1 >>
    /\ config.width = MaxWidth /\ config.height = 1
    /\ calls = << Configure(MaxWidth, 1) >>

\* ---------------------------------------------------------------- C8
\* C8: whatever the window size at initialization (zero and negative
\* included) and whatever resize events follow, the configured width and
\* height are both at least 1.
C8_ConfigAtLeastOne ==
    /\ config.width >= 1 /\ config.height >= 1
    /\ surface.width >= 1 /\ surface.height >= 1

C8_Witness ==
    /\ size[1] <= 0
    /\ event.type = "Size"
    /\ event.a <= 0
    /\ config.width = 1

\* ---------------------------------------------------------------- C9
\* C9: two toggle-triggers, with any other events in between, return the
\* selection index to its value before the first of the two.
C9_ToggleInvolution ==
    Len(toggle_hist) = 2 =>
        PipelineIndex(triangle_toggle) = PipelineIndex(toggle_hist[1])

C9_Witness ==
    /\ Len(toggle_hist) = 2
    /\ toggle_hist[1] = TRUE
    /\ event.type = "Size"
    /\ PipelineIndex(triangle_toggle) = 1

\* ---------------------------------------------------------------- C10
\* C10: a pointer-move at (x,y) with positive stored size (W,H) yields the
\* background color r = x/W, g = y/H, b = (r+g)/2, a = 1; (0,0) yields
\* (0,0,0,1), (W,H) yields (1,1,1,1) and (W,0) yields (1,0,0.5,1).
C10_PointerColor ==
    (event.type = "CursorPos" /\ pc # "panic" /\ size[1] > 0 /\ size[2] > 0) =>
        LET W == size[1]
            H == size[2]
            x == event.a
            y == event.b
            c == last_color
        IN  /\ c.r.d > 0 /\ c.r.n * W = x * c.r.d
            /\ c.g.d > 0 /\ c.g.n * H = y * c.g.d
            /\ c.b.d > 0
            /\ 2 * c.b.n * c.r.d * c.g.d = (c.r.n * c.g.d + c.g.n * c.r.d) * c.b.d
            /\ c.a = F(1, 1)
            /\ (x = 0 /\ y = 0) => c = Color(F(0, 1), F(0, 1), F(0, 1), F(1, 1))
            /\ (x = W /\ y = H) => c = Color(F(1, 1), F(1, 1), F(1, 1), F(1, 1))
            /\ (x = W /\ y = 0) => c = Color(F(1, 1), F(0, 1), F(1, 2), F(1, 1))

C10_Witness ==
    /\ event.type = "CursorPos"
    /\ pc = "events"
    /\ size = << MaxWidth, 1 >>
    /\ event.a = MaxWidth /\ event.b = 0
    /\ last_color = Color(F(1, 1), F(0, 1), F(1, 2), F(1, 1))
    /\ calls = CursorCalls(last_color, triangle_toggle)

\* ---------------------------------------------------------------- C11
\* the most recent texture acquisition failed with one of the errors errs
AcquireFailed(errs) ==
    /\ calls # << >>
    /\ calls[Len(calls)].op = "get_current_texture"
    /\ calls[Len(calls)].mode \in errs

\* C11: when texture acquisition fails with surface-lost or surface-outdated
\* the process does not terminate; the last-known configuration is reapplied
\* and nothing is presented for that frame.
C11_LostOutdatedRecovers ==
    AcquireFailed({"Lost", "Outdated"}) =>
        /\ pc # "panic"
        /\ surface = config
        /\ ~Presented(calls)

\* ---------------------------------------------------------------- C12
\* all four channels of the color are numbers in [0, 1]
ColorInUnit(c) == InUnit(c.r) /\ InUnit(c.g) /\ InUnit(c.b) /\ InUnit(c.a)

\* the CursorPos arm ran to its end in this step
CursorStep == pc = "events" /\ pc' = "events" /\ event'.type = "CursorPos"

\* C12: a pointer-move whose computed color has a channel outside [0,1]
\* (x > width, y < 0) is rejected: the current background color keeps its
\* previous value and the loop goes on, so after a pointer-move in a window
\* of positive size the current background color still has all four channels
\* in [0,1].
C12_ColorStaysInUnit ==
    [][ (CursorStep /\ size[1] > 0 /\ size[2] > 0 /\ ColorInUnit(last_color)) =>
            ColorInUnit(last_color') ]_vars

\* ---------------------------------------------------------------- C13
\* C13: the exit-trigger is terminal: once the close flag has been set by the
\* escape key or the left mouse button no later event is processed, not even
\* one queued behind it in the same poll batch, so no toggle, color change,
\* resize or frame composition follows.
C13_ExitIsTerminal ==
    [][ should_close =>
            /\ event' = event
            /\ triangle_toggle' = triangle_toggle
            /\ last_color' = last_color
            /\ size' = size /\ config' = config
            /\ calls' = calls ]_vars

\* ---------------------------------------------------------------- C14
\* C14: every frame composed without geometry buffers issues exactly one
\* draw call, over 3 vertices and 1 instance, inside the load pass and after
\* the selected pipeline is bound; the clear pass issues none.
C14_OneDrawPerFrame ==
    Presented(calls) =>
        /\ Count(calls, "draw") = 1
        /\ calls[Pos(calls, "draw")] = Draw(3, 1)
        /\ \E i \in Idx(calls, "begin_render_pass") :
             /\ calls[i].mode = "Load"
             /\ Pos(calls, "draw") \in Inside(calls, i)
             /\ \E j \in Inside(calls, i) :
                  /\ j < Pos(calls, "draw")
                  /\ calls[j] = SetPipeline(PipelineIndex(triangle_toggle))
        /\ \A i \in Idx(calls, "begin_render_pass") :
             calls[i].mode = "Clear" => Inside(calls, i) = {}

C16_NonPositiveSizeSkipsColor ==
    [][ (CursorStep /\ (size[1] <= 0 \/ size[2] <= 0)) =>
            /\ last_color' = last_color
            /\ \A ch \in { last_color'.r, last_color'.g, last_color'.b } : ch.d > 0 ]_vars

\* ---------------------------------------------------------------- C17
\* C17: when texture acquisition fails with out-of-memory, window close is
\* requested (the close flag becomes set), nothing is presented for that
\* frame, and the loop ends at its next check of the flag instead of
\* aborting.
C17_OutOfMemoryRequestsClose ==
    AcquireFailed({"OutOfMemory"}) =>
        /\ should_close
        /\ ~Presented(calls)
        /\ pc \in {"loop", "events", "done"}

\* ---------------------------------------------------------------- C18
\* C18: when texture acquisition fails with a timeout or with an other /
\* unspecified backend error, the frame is skipped (nothing submitted or
\* presented) and the loop continues with the next iteration.
C18_TimeoutOtherSkipsFrame ==
    AcquireFailed({"Timeout", "Other"}) =>
        /\ Count(calls, "submit") = 0
        /\ Count(calls, "present") = 0
        /\ pc \in {"loop", "events"}

\* ---------------------------------------------------------------- C19
\* C19: a Space press whose frame is acquired flips the pipeline selection and
\* composes exactly one frame: one acquisition, one present, a background pass
\* cleared to the color that was current before the event and a foreground
\* pass that binds the pipeline at the new selection; the current color is
\* left as it was, and the selection is an index into the pipeline bank
\* before and after the event.
SpaceStep == pc = "events" /\ pc' = "events" /\ event'.type = "KeySpace"

C19_ToggleRecomposesOneFrame ==
    [][ SpaceStep =>
            /\ triangle_toggle' = ~triangle_toggle
            /\ PipelineIndex(triangle_toggle') # PipelineIndex(triangle_toggle)
            /\ last_color' = last_color
            /\ Count(calls', "get_current_texture") = 1
            /\ Count(calls', "submit") = 1
            /\ Count(calls', "present") = 1
            /\ IsTwoPassFrame(calls', last_color, PipelineIndex(triangle_toggle'))
            /\ PipelineIndex(triangle_toggle) < Len(render_pipelines)
            /\ PipelineIndex(triangle_toggle') < Len(render_pipelines) ]_vars

\* a Space press after a pointer move: the frame is cleared to the pointer's
\* color and draws with the second pipeline
C19_Witness ==
    /\ pc = "events"
    /\ event.type = "KeySpace"
    /\ triangle_toggle
    /\ last_color # WHITE
    /\ Count(calls, "present") = 1
    /\ IsTwoPassFrame(calls, last_color, 1)

\* ---------------------------------------------------------------- C20
\* C20: a Size event changes neither the current background color nor the
\* pipeline selection; an event of the catch-all arm (another key, a key
\* release, another mouse button, ...) changes neither of them nor the stored
\* size, the configuration or the configured surface; a CursorPos event does
\* not change the pipeline selection.
OtherStep == pc = "events" /\ pc' = "events" /\ event'.type \in OtherKinds

C20_RenderStateUntouched ==
    [][ /\ SizeStep =>
               /\ last_color' = last_color
               /\ triangle_toggle' = triangle_toggle
        /\ OtherStep =>
               /\ last_color' = last_color
               /\ triangle_toggle' = triangle_toggle
               /\ size' = size
               /\ config' = config
               /\ surface' = surface
        /\ CursorStep =>
               triangle_toggle' = triangle_toggle ]_vars

\* a non-left mouse button arrives while the color and the selection differ
\* from their initial values
C20_Witness ==
    /\ pc = "events"
    /\ event.type = "MouseRight"
    /\ last_color # WHITE
    /\ triangle_toggle
    /\ size[1] > 0 /\ size[2] > 0

\* ---------------------------------------------------------------- C21
\* C21: once Escape (or the left mouse button) has set the close flag, the
\* flag is never cleared, no new iteration of the outer loop starts (no
\* poll_events follows), and the program does not abort while the rest of the
\* current event batch is handled: it goes on to normal termination.
C21_ExitTerminatesNormally ==
    [][ should_close =>
            /\ should_close'
            /\ ~(pc = "loop" /\ pc' = "events")
            /\ pc' # "panic" ]_vars

\* ---------------------------------------------------------------- C22
\* C22: every frame composition, at startup and in every handler, acquires
\* exactly one surface texture, submits to the queue exactly once and presents
\* exactly once, in that order; every acquired texture is presented before
\* any further acquisition, so two acquired textures are never outstanding.
Acquired(cs) == { i \in Idx(cs, "get_current_texture") : cs[i].mode = "Ok" }

C22_OneAcquireSubmitPresent ==
    /\ Cardinality(Acquired(calls)) <= 1
    /\ (Acquired(calls) # {} \/ Idx(calls, "submit") # {} \/ Presented(calls)) =>
           /\ Cardinality(Acquired(calls)) = 1
           /\ Count(calls, "get_current_texture") = 1
           /\ Count(calls, "submit") = 1
           /\ Count(calls, "present") = 1
           /\ Pos(calls, "get_current_texture") < Pos(calls, "submit")
           /\ Pos(calls, "submit") < Pos(calls, "present")
    /\ \A i \in Acquired(calls) :
         \E j \in Idx(calls, "present") :
            /\ i < j
            /\ \A k \in Idx(calls, "get_current_texture") : ~(i < k /\ k < j)

\* a pointer-move frame composed after the startup frame and a Space frame
C22_Witness ==
    /\ pc = "events"
    /\ event.type = "CursorPos"
    /\ toggle_hist # << >>
    /\ Cardinality(Acquired(calls)) = 1
    /\ Count(calls, "submit") = 1
    /\ Count(calls, "present") = 1

====
